---- MODULE Spec2Model ----
(***************************************************************************)
(* The session-scoped command/response bridge of the API server:           *)
(* src/apiserver/cloud_pubsub.py (CloudPubSubManager) and the REST         *)
(* handlers of src/apiserver/app.py that drive it.                         *)
(*                                                                         *)
(* Also modelled, each with variables and a specification of its own:     *)
(* the command line agent (src/agent.py, src/agent/), the plugin manager  *)
(* (src/plugins/plugin_manager.py) and the performance monitor            *)
(* (src/utils/performance_monitor.py).                                     *)
(*                                                                         *)
(* The module models one server process: its broker resources (topics,    *)
(* subscriptions), its SubscriberClient objects, the reader registry       *)
(* `subscribers`, the table `pending_messages`, the consumer callbacks     *)
(* that the Pub/Sub client runs on its own threads, and the request        *)
(* handlers that run on the event loop.                                    *)
(***************************************************************************)
EXTENDS Integers, Sequences, FiniteSets, TLC

\* ---------------------------------------------------------------- bounds
MaxSessions == 2      \* session ids in play
MaxMsgs     == 2      \* Message objects (commands and shut_down messages)
MaxReaders  == 2      \* SubscriberClient objects the process creates
MaxThreads  == 2      \* concurrently running consumer callbacks
MaxShots    == 2      \* distinct (screenshot, url) payloads a worker sends
LifeMsgs     == 1     \* Messages in Spec
LifeThreads  == 1     \* callback threads in Spec
CorrSessions == 1     \* session ids in SpecCorrelation
MaxEvents    == 3     \* screenshot messages a stream reader receives
MaxRetries   == 3     \* largest configured max_retries of the agent
MaxDelay     == 2     \* largest configured base_delay_s of the agent
MaxCalls     == 2     \* function calls in one model response
MaxContents  == 7     \* conversation entries before the agent is left alone
MaxKeep      == 2     \* largest configured number of turns with screenshots
MaxPlugins   == 5     \* plugin objects
MaxReload    == 2     \* length of a list given to reload_plugins
MaxHistory   == 2     \* largest max_history_size of a monitor
MaxValue     == 2     \* metric values and durations
MaxOps       == 4     \* calls on a monitor
MaxBlocks    == 2     \* time_operation blocks open at once

Sessions == 1..MaxSessions
Ids      == 1..MaxMsgs
Threads  == 1..MaxThreads
Shots    == 1..MaxShots

VARIABLES
    topics,            \* broker: the topic paths that exist
    readers,           \* every SubscriberClient created so far, in creation order
    subscribers,       \* CloudPubSubManager.subscribers: session -> reader (0: no key)
    pending_messages,  \* CloudPubSubManager.pending_messages: the ids that are keys
    slot,              \* Message completion slot of each Message, by id
    req,               \* the request that owns each Message, and where it stands
    hand,              \* the consumer callbacks in progress, per callback thread
    sess,              \* the REST view of each session id
    ev,                \* how the last finished consumer callback ended
    messages,          \* stream_screenshots: the list `messages` of each stream reader
    emitted,           \* the events each stream has yielded to its client, in order
    received,          \* the screenshots each stream reader was handed, in order
    appended,          \* the events each stream's callbacks appended, in order
    shand              \* the stream callbacks in progress, per callback thread

\* The command line agent (src/agent.py and src/agent/): one BrowserAgent.
VARIABLES
    agentcfg,          \* which BrowserAgent it is and the settings it was built with
    contents,          \* the conversation history, oldest entry first
    status,            \* agent_loop: what the last iteration returned
    attempt,           \* get_model_response: the loop variable
    delay,             \* get_model_response: the last time.sleep argument
    generated,         \* generate_content calls of the current get_model_response
    apc,               \* where the agent stands
    last               \* the last finished iteration: its response and outcome

agentVars == <<agentcfg, contents, status, attempt, delay, generated, apc, last>>

\* The plugin manager (src/plugins/plugin_manager.py): one PluginManager.
VARIABLES
    plugins,           \* PluginManager.plugins: the plugin objects, in order
    _plugin_registry,  \* PluginManager._plugin_registry: name -> plugin (0: no key)
    pout               \* the last operation on the manager and how it ended

pluginVars == <<plugins, _plugin_registry, pout>>

\* The performance monitor (src/utils/performance_monitor.py): one
\* PerformanceMonitor.
VARIABLES
    monitor,           \* the constructor arguments: enabled, max_history_size
    metrics,           \* PerformanceMonitor.metrics: metric name -> its values
    session_metrics,   \* PerformanceMonitor.session_metrics
    active_timings,    \* PerformanceMonitor.active_timings: the names that are keys
    blocks,            \* the time_operation blocks that are open, innermost last
    oplog              \* the calls made on the monitor, in order

monitorVars == <<monitor, metrics, session_metrics, active_timings, blocks, oplog>>

clientVars == <<agentVars, pluginVars, monitorVars>>

\* The state of the screenshot streams.
streamVars == <<messages, emitted, received, appended, shand>>

serverVars == <<topics, readers, subscribers, pending_messages, slot, req, hand, sess, ev,
                messages, emitted, received, appended, shand>>

vars == <<topics, readers, subscribers, pending_messages, slot, req, hand, sess, ev,
          messages, emitted, received, appended, shand,
          agentcfg, contents, status, attempt, delay, generated, apc, last,
          plugins, _plugin_registry, pout,
          monitor, metrics, session_metrics, active_timings, blocks, oplog>>

\* ------------------------------------------------------------ topic paths
\* cloud_pubsub.py:80-84: one path per (kind, session id).
command_topic_path(s)    == <<"commands", s>>
screenshot_topic_path(s) == <<"screenshots", s>>

\* --------------------------------------------------- the manager's state
\* The operations of the manager are state transformers over the record
\* [topics, readers, subscribers]; an operation that raises returns the state
\* it leaves behind together with raised = TRUE.
Mgr == [topics |-> topics, readers |-> readers, subscribers |-> subscribers]

Ok(st)     == [st |-> st, raised |-> FALSE]
Raised(st) == [st |-> st, raised |-> TRUE]

\* cloud_pubsub.py:42-48: get_topic, and create_topic when it is not found;
\* `fails` is a broker error other than NotFound.
_create_topic(st, topic_path, fails) ==
    IF fails THEN Raised(st)
    ELSE Ok([st EXCEPT !.topics = @ \cup {topic_path}])

\* Deleting a topic leaves its subscriptions in the broker, detached.
Detach(rs, s) ==
    [i \in DOMAIN rs |->
        IF rs[i].sess = s /\ rs[i].sub = "attached"
        THEN [rs[i] EXCEPT !.sub = "detached"] ELSE rs[i]]

\* Variant of _delete_topic that lets NotFound propagate.
_delete_topic_strict(st, topic_path, fails) ==
    IF fails \/ topic_path \notin st.topics THEN Raised(st)
    ELSE Ok([st EXCEPT
              !.topics = @ \ {topic_path},
              !.readers = IF topic_path[1] = "screenshots"
                          THEN Detach(@, topic_path[2]) ELSE @])

\* cloud_pubsub.py:50-55: NotFound is tolerated, any other error propagates.
_delete_topic(st, topic_path, fails) ==
    IF fails THEN Raised(st)
    ELSE Ok([st EXCEPT
              !.topics = @ \ {topic_path},
              !.readers = IF topic_path[1] = "screenshots"
                          THEN Detach(@, topic_path[2]) ELSE @])

\* cloud_pubsub.py:57-69: get_subscription finds nothing for a fresh uuid, so
\* create_subscription runs; it raises NotFound when the topic does not exist.
_create_subscription(st, r, topic_path, fails) ==
    IF fails \/ topic_path \notin st.topics THEN Raised(st)
    ELSE Ok([st EXCEPT !.readers[r].sub = "attached"])


\* cloud_pubsub.py:97-121: a new SubscriberClient takes the registry entry of
\* the session (line 104) before its subscription exists (line 113); the
\* subscription has a fresh uuid name, and subscribe() attaches the handler.
start_subscriber(st, s, handler, fails) ==
    LET r   == Len(st.readers) + 1
        new == [sess |-> s, handler |-> handler, open |-> TRUE, sub |-> "none"]
        st1 == [st EXCEPT !.readers = Append(@, new), !.subscribers[s] = r]
    IN  _create_subscription(st1, r, screenshot_topic_path(s), fails)

\* cloud_pubsub.py:89-95. f is the broker call that fails: 0 none, 1 the
\* command topic, 2 the screenshot topic, 3 the subscription.
start_session(st, s, f) ==
    LET a == _create_topic(st, command_topic_path(s), f = 1)
    IN  IF a.raised THEN a
        ELSE LET b == _create_topic(a.st, screenshot_topic_path(s), f = 2)
             IN  IF b.raised THEN b
                 ELSE start_subscriber(b.st, s, "corr", f = 3)

\* SubscriberClient.close(): closing a closed client changes nothing.
Close(rs, r) == [rs EXCEPT ![r].open = FALSE]

\* cloud_pubsub.py:123-130. f is the broker call that fails: 0 none, 1 the
\* command topic, 2 the screenshot topic.
end_session(st, s, f) ==
    LET r   == st.subscribers[s]
        st1 == IF r # 0
               THEN [st EXCEPT !.readers = Close(@, r), !.subscribers[s] = 0]
               ELSE st
        a   == _delete_topic(st1, command_topic_path(s), f = 1)
    IN  IF a.raised THEN a
        ELSE _delete_topic(a.st, screenshot_topic_path(s), f = 2)

\* cloud_pubsub.py:132-135.
shut_down(st) ==
    LET regd == {st.subscribers[s] : s \in Sessions} \ {0}
    IN  [st EXCEPT
          !.readers = [i \in DOMAIN @ |->
                         IF i \in regd THEN [@[i] EXCEPT !.open = FALSE] ELSE @[i]],
          !.subscribers = [s \in Sessions |-> 0]]

\* Writes a manager state back to the variables.
SetMgr(st) ==
    /\ topics' = st.topics
    /\ readers' = st.readers
    /\ subscribers' = st.subscribers

\* A reader can still be created (the bound on SubscriberClient objects).
CanCreateReader == Len(readers) < MaxReaders


\* ------------------------------------------------------------- Message
\* models.Message: the completion slot a requester waits on.  `val` is the
\* (screenshot, url) pair, 0 for set_screenshot(None); `by` is the id carried
\* by the result whose callback resolved the slot.
Unset == [set |-> FALSE, val |-> 0, by |-> 0]

\* Message.set_screenshot: the slot is single-resolution, a resolved slot
\* keeps its value.
set_screenshot(sl, v, by) ==
    IF sl.set THEN sl ELSE [set |-> TRUE, val |-> v, by |-> by]

\* ------------------------------------------------------ result messages
\* What a message on a screenshots topic can hold: a result with screenshot
\* and url ("ok"), a result with an error marker ("error"), a JSON object
\* with an id and nothing else ("nokey"), and bytes that are no JSON object
\* with an id ("bad").
Results ==
    [id : Ids, kind : {"ok"}, val : Shots]
        \cup [id : Ids, kind : {"error", "nokey"}, val : {0}]
        \cup {[id |-> 0, kind |-> "bad", val |-> 0]}

Idle == [pc |-> "idle", id |-> 0, kind |-> "", val |-> 0, sess |-> 0]

\* A callback thread that runs no stream callback.
SIdle == [pc |-> "idle", r |-> 0, val |-> 0]

\* cloud_pubsub.py:160-161 and 193: _screenshot_handler acks in its finally
\* clause, on every path; process_message acks in its first statement.
ack(branch) == TRUE

\* How a callback ended: "unknown" (the id, kept in `id`, is no key of the
\* table), "error" (the except clause ran), "resolved" (the key was deleted)
\* or "escaped" (the exception left a stream callback).  `acked` tells whether
\* the callback acknowledged its message.
Event(branch, id) == [branch |-> branch, id |-> id, acked |-> ack(branch)]

NoEvent == [branch |-> "none", id |-> 0, acked |-> FALSE]

\* Variant of IsPending that skips the membership test of line 146.
IsPendingAlways(pm, id) == TRUE

\* cloud_pubsub.py:146: the membership test of the handler.
IsPending(pm, id) == id \in pm

\* Variant of ResolveTarget that resolves the oldest pending Message instead
\* of the one stored under the result's id.
ResolveOldest(id) ==
    IF pending_messages = {} THEN id
    ELSE CHOOSE c \in pending_messages : \A d \in pending_messages : c <= d

\* cloud_pubsub.py:147-153: the Message the handler resolves for a result
\* with this id, and the value it resolves it with.
ResolveTarget(id) == id

ResolveValue(m) == IF m.kind = "error" THEN 0 ELSE m.val

\* Variant of Register for a Message that is registered only after
\* publish_future.result() returned: the id is no key while it is published.
RegisterAfterPublish(pm, id) == pm

\* cloud_pubsub.py:177: self.pending_messages[message.id] = message.
Register(pm, id) == pm \cup {id}

\* Variant of Remove that keeps the key in the table (line 154 left out).
RemoveNothing(pm, id) == pm

\* cloud_pubsub.py:154 and 186: the table without the id.
Remove(pm, id) == pm \ {id}


\* ---------------------------------------------------------------- requests
\* A request and its Message: the session it names, the kind of Message, the
\* HTTP status it ended with and the (screenshot, url) pair of its response.
Unused == [pc |-> "unused", sess |-> 0, kind |-> "", status |-> 0, val |-> 0]

\* The event loop runs request handlers one at a time; while a handler is
\* blocked in publish_future.result() (cloud_pubsub.py:182) no other handler
\* runs, only the callback threads do.
Loop == \A c \in Ids : req[c].pc # "publishing"

\* Message ids are fresh uuids (models.Message); the model hands them out in
\* order.
IsNextId(c) == req[c].pc = "unused" /\ \A d \in Ids : d < c => req[d].pc # "unused"

\* Nothing of the process or the broker bears this session id.
NoResources(s) ==
    /\ command_topic_path(s) \notin topics
    /\ screenshot_topic_path(s) \notin topics
    /\ subscribers[s] = 0
    /\ \A r \in DOMAIN readers : readers[r].sess # s

\* ================================================================ the agent
\* Two BrowserAgent classes are in the tree: src/agent.py, and its split into
\* src/agent/browser_agent.py with ConversationManager and ResponseProcessor.
Standalone == "agent.py"
Modular    == "agent/browser_agent.py"

\* agent.py:181, the defaults run_one_iteration leaves in force.
DefaultMaxRetries == 5
DefaultBaseDelay  == 1

\* A conversation entry: who speaks, and whether it holds function responses
\* that carry a screenshot.  "none" is a None that agent.py:249 appended.
Entry(role, shots) == [role |-> role, shots |-> shots]

\* agent.py:65-72, conversation_manager.py:50-57: the history starts with the
\* user's query.
Query == Entry("user", FALSE)

\* What one function call of a response comes to: whether it carries a
\* safety_decision (and then what the user answers, or that the decision is
\* not require_confirmation), and what handle_action does with it.
FunctionCalls ==
    {[safety |-> s, result |-> r] :
        s \in {"none", "accept"}, r \in {"EnvState", "dict", "raise"}}
    \cup {[safety |-> "decline", result |-> "none"],
          [safety |-> "unknown", result |-> "none"]}

\* A response as run_one_iteration reads it: has it candidates, has the
\* first candidate content, has the content text parts, which function calls,
\* and is the finish reason MALFORMED_FUNCTION_CALL.
Response(cand, content, text, calls, malformed) ==
    [candidates |-> cand, content |-> content, text |-> text, calls |-> calls,
     malformed |-> malformed]

Responses ==
    {Response(FALSE, FALSE, FALSE, <<>>, FALSE)}
    \cup {Response(TRUE, FALSE, FALSE, <<>>, m) : m \in BOOLEAN}
    \cup {Response(TRUE, TRUE, FALSE, <<>>, TRUE)}
    \cup {Response(TRUE, TRUE, t, cs, FALSE) :
            t \in BOOLEAN, cs \in UNION {[1..n -> FunctionCalls] : n \in 0..MaxCalls}}

NoResponse == Response(FALSE, FALSE, FALSE, <<>>, FALSE)

NoAgent == [impl |-> "none", max_retries |-> 0, base_delay_s |-> 0,
            max_recent_turns_with_screenshots |-> 0, max_history_length |-> 0]

\* `raised`: an exception left run_one_iteration.
Iteration(resp, ret, handled, raised) ==
    [resp |-> resp, ret |-> ret, handled |-> handled, raised |-> raised]

NoIteration == Iteration(NoResponse, "", 0, FALSE)

InitAgent ==
    /\ agentcfg = NoAgent
    /\ contents = <<>>
    /\ status = ""
    /\ attempt = 0
    /\ delay = 0
    /\ generated = 0
    /\ apc = "new"
    /\ last = NoIteration

\* ======================================================= the plugin manager
\* The plugin objects, and an object that is not an ActionPlugin.
PluginObjects == 1..MaxPlugins
NotAPlugin    == 0

\* base_plugin.py:25-34: the name a plugin was constructed with.  Two
\* objects may have been given the same name.
PluginNames == 1..((MaxPlugins + 1) \div 2)
name(p) == (p + 1) \div 2

\* plugin_manager.py:26-29.
InitPlugins ==
    /\ plugins = <<>>
    /\ _plugin_registry = [n \in PluginNames |-> 0]
    /\ pout = [op |-> "none", arg |-> 0, raised |-> FALSE]

\* ================================================== the performance monitor
\* The metric names in play: two free names and one of the names that
\* _record_metric counts in the session (performance_monitor.py:157-164).
MetricNames == {"test_metric", "test_operation", "action_execution"}

NoMonitor == [enabled |-> FALSE, max_history_size |-> 0]

\* performance_monitor.py:55 and 255: the empty dict.
NoSessionMetrics == [started |-> FALSE, total_actions |-> 0]

InitMonitor ==
    /\ monitor = NoMonitor
    /\ metrics = [n \in MetricNames |-> <<>>]
    /\ session_metrics = NoSessionMetrics
    /\ active_timings = {}
    /\ blocks = <<>>
    /\ oplog = <<>>

\* HTTP status codes of app.py.
HTTP_200 == 200
HTTP_408 == 408
HTTP_500 == 500

Init ==
    /\ topics = {}
    /\ readers = <<>>
    /\ subscribers = [s \in Sessions |-> 0]
    /\ pending_messages = {}
    /\ slot = [c \in Ids |-> Unset]
    /\ req = [c \in Ids |-> Unused]
    /\ hand = [t \in Threads |-> Idle]
    /\ sess = [s \in Sessions |-> "NONE"]
    /\ ev = NoEvent
    /\ messages = [r \in 1..MaxReaders |-> <<>>]
    /\ emitted = [r \in 1..MaxReaders |-> <<>>]
    /\ received = [r \in 1..MaxReaders |-> <<>>]
    /\ appended = [r \in 1..MaxReaders |-> <<>>]
    /\ shand = [t \in Threads |-> SIdle]
    /\ InitAgent
    /\ InitPlugins
    /\ InitMonitor

\* ------------------------------------------------------------ REST handlers
\* app.py:97-115, POST /sessions: a fresh uuid, start_session, then
\* start_worker (w: the worker started); any exception becomes a 500.
CreateSession(s, f, w) ==
    /\ Loop
    /\ f \in {0, 3} => CanCreateReader
    /\ sess[s] = "NONE" /\ NoResources(s)
    /\ LET r  == start_session(Mgr, s, f)
           ok == ~r.raised /\ w
       IN  /\ SetMgr(r.st)
           /\ sess' = [sess EXCEPT ![s] = IF ok THEN "ACTIVE" ELSE "FAILED"]
    /\ UNCHANGED <<pending_messages, slot, req, hand, ev>>
    /\ UNCHANGED streamVars
    /\ UNCHANGED clientVars

\* app.py:129-137, POST /sessions/{id}/commands as written: line 137 calls
\* publish_message(session_id=..., message=...) while cloud_pubsub.py:163-165
\* declares publish_message(self, session_id, message, timeout) with no
\* default, so the call raises TypeError before the body runs and the request
\* ends with a 500; its Message (line 136) was never registered.
CreateCommand(c, s) ==
    /\ Loop /\ IsNextId(c)
    /\ req' = [req EXCEPT ![c] = [Unused EXCEPT !.pc = "done", !.sess = s,
                  !.kind = "command", !.status = HTTP_500]]
    /\ UNCHANGED <<topics, readers, subscribers, pending_messages, slot, hand, sess, ev>>
    /\ UNCHANGED streamVars
    /\ UNCHANGED clientVars

\* app.py:156-164, DELETE /sessions/{id} as written: line 160 makes the same
\* call without timeout, so line 163 (end_session) is not reached.
DeleteSession(c, s) ==
    /\ Loop /\ IsNextId(c)
    /\ req' = [req EXCEPT ![c] = [Unused EXCEPT !.pc = "done", !.sess = s,
                  !.kind = "shut_down", !.status = HTTP_500]]
    /\ UNCHANGED <<topics, readers, subscribers, pending_messages, slot, hand, sess, ev>>
    /\ UNCHANGED streamVars
    /\ UNCHANGED clientVars


\* ------------------------------------------------- manager operations
\* cloud_pubsub.py:89-95 called on its own (a second call for an id included).
StartSession(s, f) ==
    /\ Loop
    /\ f \in {0, 3} => CanCreateReader
    /\ SetMgr(start_session(Mgr, s, f).st)
    /\ UNCHANGED <<pending_messages, slot, req, hand, sess, ev>>
    /\ UNCHANGED streamVars
    /\ UNCHANGED clientVars

\* The REST view of a session after end_session returned or raised.
AfterEnd(state, raised) ==
    IF ~raised /\ state = "ACTIVE" THEN "GONE" ELSE state

\* cloud_pubsub.py:123-130 called on its own.
EndSession(s, f) ==
    /\ Loop
    /\ LET e == end_session(Mgr, s, f)
       IN  /\ SetMgr(e.st)
           /\ sess' = [sess EXCEPT ![s] = AfterEnd(@, e.raised)]
    /\ UNCHANGED <<pending_messages, slot, req, hand, ev>>
    /\ UNCHANGED streamVars
    /\ UNCHANGED clientVars

\* cloud_pubsub.py:132-135.
ShutDown ==
    /\ Loop
    /\ SetMgr(shut_down(Mgr))
    /\ UNCHANGED <<pending_messages, slot, req, hand, sess, ev>>
    /\ UNCHANGED streamVars
    /\ UNCHANGED clientVars

\* cloud_pubsub.py:189-201, the start of a screenshot stream: its own reader,
\* which start_subscriber also puts in the registry.
StreamOpen(s, fails) ==
    /\ Loop /\ CanCreateReader
    /\ SetMgr(start_subscriber(Mgr, s, "stream", fails).st)
    /\ UNCHANGED <<pending_messages, slot, req, hand, sess, ev>>
    /\ UNCHANGED streamVars
    /\ UNCHANGED clientVars

\* cloud_pubsub.py:203-209: the client is gone, the loop closes its reader.
\* A stream whose start_subscriber raised never entered the loop.
StreamDisconnect(r) ==
    /\ Loop
    /\ r \in DOMAIN readers
    /\ readers[r].handler = "stream" /\ readers[r].open /\ readers[r].sub # "none"
    /\ readers' = Close(readers, r)
    /\ UNCHANGED <<topics, subscribers, pending_messages, slot, req, hand, sess, ev>>
    /\ UNCHANGED streamVars
    /\ UNCHANGED clientVars

\* cloud_pubsub.py:163-181, publish_message called with its timeout, up to the
\* hand-over to the publisher: start_session when the registry has no reader
\* for the session (lines 167-169, outside the try), then the registration of
\* the Message (line 177) and publish (line 179).  kind is "command" for the
\* Message of create_command and "shut_down" for that of delete_session.
PublishMessageBegin(c, s, kind, f) ==
    /\ Loop /\ IsNextId(c)
    /\ subscribers[s] = 0 /\ f \in {0, 3} => CanCreateReader
    /\ LET r == IF subscribers[s] = 0 THEN start_session(Mgr, s, f) ELSE Ok(Mgr)
           q == [Unused EXCEPT !.sess = s, !.kind = kind]
       IN  /\ SetMgr(r.st)
           /\ IF r.raised
              THEN /\ req' = [req EXCEPT ![c] = [q EXCEPT !.pc = "done",
                                                          !.status = HTTP_500]]
                   /\ UNCHANGED pending_messages
              ELSE /\ req' = [req EXCEPT ![c] = [q EXCEPT !.pc = "publishing"]]
                   /\ pending_messages' = Register(pending_messages, c)
    /\ UNCHANGED <<slot, hand, sess, ev>>
    /\ UNCHANGED streamVars
    /\ UNCHANGED clientVars

\* cloud_pubsub.py:182-187 and the caller's next statement.  ok: the publish
\* future resolved in time, which takes an existing command topic; otherwise
\* the except clause pops the id and re-raises (a 500).  After a successful
\* publish create_command waits (app.py:139) and delete_session calls
\* end_session (app.py:163, f: the broker call of end_session that fails).
PublishMessageEnd(c, ok, f) ==
    /\ req[c].pc = "publishing"
    /\ ok => command_topic_path(req[c].sess) \in topics
    /\ IF ~ok
       THEN /\ pending_messages' = Remove(pending_messages, c)
            /\ req' = [req EXCEPT ![c].pc = "done", ![c].status = HTTP_500]
            /\ UNCHANGED <<topics, readers, subscribers, sess>>
       ELSE IF req[c].kind = "command"
       THEN /\ req' = [req EXCEPT ![c].pc = "waiting"]
            /\ UNCHANGED <<topics, readers, subscribers, sess, pending_messages>>
       ELSE LET e == end_session(Mgr, req[c].sess, f)
            IN  /\ SetMgr(e.st)
                /\ sess' = [sess EXCEPT ![req[c].sess] = AfterEnd(@, e.raised)]
                /\ req' = [req EXCEPT ![c].pc = "done",
                             ![c].status = IF e.raised THEN HTTP_500 ELSE HTTP_200]
                /\ UNCHANGED pending_messages
    /\ UNCHANGED <<slot, hand, ev>>
    /\ UNCHANGED streamVars
    /\ UNCHANGED clientVars

\* Variant of StatusOf that reports a worker failure as a timeout.
StatusFailureAsTimeout(val) == IF val = 0 THEN HTTP_408 ELSE HTTP_200

\* app.py:148-153 on the value Message.get_screenshot returned.
StatusOf(val) == IF val = 0 THEN HTTP_500 ELSE HTTP_200

\* app.py:139-140 and 148-153: get_screenshot returns once the slot is
\* resolved; None is a 500, anything else the 200 response.
GetScreenshotReturns(c) ==
    /\ Loop
    /\ req[c].pc = "waiting" /\ slot[c].set
    /\ req' = [req EXCEPT ![c].pc = "done", ![c].status = StatusOf(slot[c].val),
                          ![c].val = slot[c].val]
    /\ UNCHANGED <<topics, readers, subscribers, pending_messages, slot, hand, sess, ev>>
    /\ UNCHANGED streamVars
    /\ UNCHANGED clientVars

\* Variant of GetScreenshotTimesOut for a wait without a timeout: an unresolved
\* slot never ends the wait.
GetScreenshotNeverTimesOut(c) ==
    /\ FALSE
    /\ UNCHANGED vars

\* app.py:141-146: get_screenshot raised asyncio.TimeoutError, a 408.  Nothing
\* else is done on this path.
GetScreenshotTimesOut(c) ==
    /\ Loop
    /\ req[c].pc = "waiting" /\ ~slot[c].set
    /\ req' = [req EXCEPT ![c].pc = "done", ![c].status = HTTP_408]
    /\ UNCHANGED <<topics, readers, subscribers, pending_messages, slot, hand, sess, ev>>
    /\ UNCHANGED streamVars
    /\ UNCHANGED clientVars


\* ------------------------------------------------- consumer callbacks
\* The Pub/Sub client runs the callback of a reader on its own threads, so
\* callbacks interleave with each other and with the event loop between the
\* statements of _screenshot_handler; each dictionary operation is atomic.

\* A reader whose callback the transport can call.
Receiving(r) ==
    /\ r \in DOMAIN readers
    /\ readers[r].open /\ readers[r].sub = "attached"

\* cloud_pubsub.py:140-146 and 156-161: decode, parse, read the id, test the
\* table.  Bytes that do not parse, or have no id, raise into the except
\* clause; an id that is no key is logged; both end in the ack of `finally`.
HandlerBegin(t, r, m) ==
    /\ hand[t].pc = "idle"
    /\ \A u \in Threads : u < t => hand[u].pc # "idle"
    /\ Receiving(r) /\ readers[r].handler = "corr"
    /\ IF m.kind = "bad"
       THEN ev' = Event("error", 0) /\ UNCHANGED hand
       ELSE IF ~IsPending(pending_messages, m.id)
       THEN ev' = Event("unknown", m.id) /\ UNCHANGED hand
       ELSE /\ hand' = [hand EXCEPT ![t] = [pc |-> "found", id |-> m.id,
                                           kind |-> m.kind, val |-> m.val,
                                           sess |-> readers[r].sess]]
            /\ UNCHANGED ev
    /\ UNCHANGED <<topics, readers, subscribers, pending_messages, slot, req, sess>>
    /\ UNCHANGED streamVars
    /\ UNCHANGED clientVars

\* cloud_pubsub.py:147-153: self.pending_messages[id] raises KeyError when
\* another callback deleted the key meanwhile, parsed_data["screenshot"] and
\* ["url"] raise KeyError for a result without them; otherwise set_screenshot
\* is called (raises: a resolved slot refuses the second resolution by
\* raising instead of ignoring it).
HandlerResolve(t, raises) ==
    /\ hand[t].pc = "found"
    /\ LET id == hand[t].id
           tg == ResolveTarget(id)
       IN  IF ~IsPending(pending_messages, id) \/ hand[t].kind = "nokey"
           THEN /\ ev' = Event("error", 0)
                /\ hand' = [hand EXCEPT ![t] = Idle]
                /\ UNCHANGED slot
           ELSE /\ slot' = [slot EXCEPT ![tg] = set_screenshot(@, ResolveValue(hand[t]), id)]
                /\ IF slot[tg].set /\ raises
                   THEN /\ ev' = Event("error", 0)
                        /\ hand' = [hand EXCEPT ![t] = Idle]
                   ELSE /\ hand' = [hand EXCEPT ![t].pc = "resolved"]
                        /\ UNCHANGED ev
    /\ UNCHANGED <<topics, readers, subscribers, pending_messages, req, sess>>
    /\ UNCHANGED streamVars
    /\ UNCHANGED clientVars

\* cloud_pubsub.py:154 and 158-161: del raises KeyError when the key is gone.
HandlerDelete(t) ==
    /\ hand[t].pc = "resolved"
    /\ LET id == hand[t].id
       IN  IF IsPending(pending_messages, id)
           THEN /\ pending_messages' = Remove(pending_messages, id)
                /\ ev' = Event("resolved", 0)
           ELSE /\ ev' = Event("error", 0)
                /\ UNCHANGED pending_messages
    /\ hand' = [hand EXCEPT ![t] = Idle]
    /\ UNCHANGED <<topics, readers, subscribers, slot, req, sess>>
    /\ UNCHANGED streamVars
    /\ UNCHANGED clientVars

\* ------------------------------------------------- screenshot streams
\* cloud_pubsub.py:189-213.  The callback process_message runs on the Pub/Sub
\* client's threads and appends to the list `messages`; the generator drains
\* the list on the event loop.  list.append and list.pop(0) are atomic.

\* Variant of pop that takes the newest event (messages.pop()).
pop_last(q) == [head |-> q[Len(q)], rest |-> SubSeq(q, 1, Len(q) - 1)]

\* cloud_pubsub.py:211: messages.pop(0) takes the oldest event.
pop(q) == [head |-> Head(q), rest |-> Tail(q)]

\* cloud_pubsub.py:192-195: ack, decode, parse and read the screenshot.  Bytes
\* that do not parse and results without a screenshot (error-only results
\* included) raise out of the callback, which has no try; the message is
\* acked already.
StreamReceive(t, r, m) ==
    /\ shand[t].pc = "idle"
    /\ \A u \in Threads : u < t => shand[u].pc # "idle"
    /\ Receiving(r) /\ readers[r].handler = "stream"
    /\ Len(received[r]) < MaxEvents
    /\ IF m.kind = "ok"
       THEN /\ received' = [received EXCEPT ![r] = Append(@, m.val)]
            /\ shand' = [shand EXCEPT ![t] = [pc |-> "parsed", r |-> r, val |-> m.val]]
            /\ UNCHANGED ev
       ELSE /\ ev' = Event("escaped", 0)
            /\ UNCHANGED <<received, shand>>
    /\ UNCHANGED <<topics, readers, subscribers, pending_messages, slot, req, hand, sess>>
    /\ UNCHANGED <<messages, emitted, appended>>
    /\ UNCHANGED clientVars

\* cloud_pubsub.py:196: messages.append(...).
StreamAppend(t) ==
    /\ shand[t].pc = "parsed"
    /\ messages' = [messages EXCEPT ![shand[t].r] = Append(@, shand[t].val)]
    /\ appended' = [appended EXCEPT ![shand[t].r] = Append(@, shand[t].val)]
    /\ shand' = [shand EXCEPT ![t] = SIdle]
    /\ UNCHANGED <<topics, readers, subscribers, pending_messages, slot, req, hand, sess, ev>>
    /\ UNCHANGED <<emitted, received>>
    /\ UNCHANGED clientVars

\* cloud_pubsub.py:210-212: the generator yields the oldest event of the
\* list; it only runs until line 209 closed the reader.
StreamEmit(r) ==
    /\ Loop
    /\ r \in DOMAIN readers
    /\ readers[r].handler = "stream" /\ readers[r].open /\ readers[r].sub # "none"
    /\ messages[r] # <<>>
    /\ messages' = [messages EXCEPT ![r] = pop(@).rest]
    /\ emitted' = [emitted EXCEPT ![r] = Append(@, pop(messages[r]).head)]
    /\ UNCHANGED <<topics, readers, subscribers, pending_messages, slot, req, hand, sess, ev>>
    /\ UNCHANGED <<received, appended, shand>>
    /\ UNCHANGED clientVars

\* ------------------------------------------------------- specification
\* The REST handlers as written, on the sessions S with the Messages I.
Rest(S, I) ==
    \/ \E s \in S, f \in 0..3, w \in BOOLEAN : CreateSession(s, f, w)
    \/ \E c \in I, s \in S : CreateCommand(c, s)
    \/ \E c \in I, s \in S : DeleteSession(c, s)

\* The manager's session and stream operations.
Lifecycle(S) ==
    \/ \E s \in S, f \in 0..3 : StartSession(s, f)
    \/ \E s \in S, f \in 0..2 : EndSession(s, f)
    \/ ShutDown
    \/ \E s \in S, fails \in BOOLEAN : StreamOpen(s, fails)
    \/ \E r \in 1..MaxReaders : StreamDisconnect(r)

\* publish_message called with its timeout, and what its caller does next.
Requests(S, I) ==
    \/ \E c \in I, s \in S, kind \in {"command", "shut_down"}, f \in 0..3 :
          PublishMessageBegin(c, s, kind, f)
    \/ \E c \in I, ok \in BOOLEAN, f \in 0..2 : PublishMessageEnd(c, ok, f)
    \/ \E c \in I : GetScreenshotReturns(c)
    \/ \E c \in I : GetScreenshotTimesOut(c)

\* The consumer callbacks of the correlation readers, on the threads T.
Callbacks(T) ==
    \/ \E t \in T, r \in 1..MaxReaders, m \in Results : HandlerBegin(t, r, m)
    \/ \E t \in T, raises \in BOOLEAN : HandlerResolve(t, raises)
    \/ \E t \in T : HandlerDelete(t)

\* Spec has every operation on every session, with LifeMsgs Messages and
\* LifeThreads callback threads.
Next ==
    \/ Rest(Sessions, 1..LifeMsgs)
    \/ Lifecycle(Sessions)
    \/ Requests(Sessions, 1..LifeMsgs)
    \/ Callbacks(1..LifeThreads)

Spec == Init /\ [][Next]_vars

\* SpecCorrelation has the commands and their results with every Message and
\* every callback thread, on CorrSessions sessions, which are created and
\* deleted through the handlers only.
NextCorrelation ==
    \/ Rest(1..CorrSessions, Ids)
    \/ Requests(1..CorrSessions, Ids)
    \/ Callbacks(Threads)

SpecCorrelation == Init /\ [][NextCorrelation]_vars

\* The stream callbacks on the threads T and the generators.
Streams(T) ==
    \/ \E t \in T, r \in 1..MaxReaders, m \in Results : StreamReceive(t, r, m)
    \/ \E t \in T : StreamAppend(t)
    \/ \E r \in 1..MaxReaders : StreamEmit(r)

\* SpecStream has the screenshot streams of CorrSessions sessions with every
\* callback thread; a stream reader is closed by its own loop only (line
\* 208), so that a closed stream reader is a stream whose client is gone.
NextStream ==
    \/ \E s \in 1..CorrSessions, f \in 0..3, w \in BOOLEAN : CreateSession(s, f, w)
    \/ \E s \in 1..CorrSessions, fails \in BOOLEAN : StreamOpen(s, fails)
    \/ \E r \in 1..MaxReaders : StreamDisconnect(r)
    \/ Streams(Threads)

SpecStream == Init /\ [][NextStream]_vars


\* SpecLive is the commands and their results of SpecCorrelation, on the
\* callback threads of Spec, with the progress the code's timeouts give: a
\* publish ends (publish_future.result(timeout=...), cloud_pubsub.py:182) and
\* a wait ends (get_screenshot(timeout=config.cmd_timeout), app.py:139).
NextLive ==
    \/ Rest(1..CorrSessions, Ids)
    \/ Requests(1..CorrSessions, Ids)
    \/ Callbacks(1..LifeThreads)

Progress ==
    \A c \in Ids :
        /\ WF_vars(\E ok \in BOOLEAN, f \in 0..2 : PublishMessageEnd(c, ok, f))
        /\ WF_vars(GetScreenshotReturns(c) \/ GetScreenshotTimesOut(c))

SpecLive == Init /\ [][NextLive]_vars /\ Progress

\* ====================================================== the agent's steps
\* Everything of the process that is not the agent.
offAgent == <<serverVars, pluginVars, monitorVars>>

\* response_processor.py:29-47, agent.py:211-217: is there any text.
get_text(resp) == resp.content /\ resp.text

\* response_processor.py:49-67, agent.py:219-225.
extract_function_calls(resp) == IF resp.content THEN resp.calls ELSE <<>>

\* response_processor.py:95-113.
should_retry_response(resp) ==
    /\ extract_function_calls(resp) = <<>>
    /\ ~get_text(resp)
    /\ resp.malformed

\* response_processor.py:115-129.
is_task_complete(resp) ==
    extract_function_calls(resp) = <<>> /\ get_text(resp)

\* conversation_manager.py:66-73.
add_model_response(c) == Append(c, Entry("model", FALSE))

add_function_responses_dropped(c, shots) == c

\* conversation_manager.py:75-87: one user turn for all function responses.
add_function_responses(c, shots) == Append(c, Entry("user", shots))

\* conversation_manager.py:93-120: walking back from the newest entry, the
\* user turns with screenshots beyond the newest `keep` lose their images.
cleanup_old_screenshots(c, keep) ==
    [i \in DOMAIN c |->
        IF /\ c[i].role = "user" /\ c[i].shots
           /\ Cardinality({j \in i..Len(c) : c[j].role = "user" /\ c[j].shots}) > keep
        THEN [c[i] EXCEPT !.shots = FALSE]
        ELSE c[i]]

\* agent.py:318-319: the query and the newest 2 * max_history_length entries.
Truncate(c, n) ==
    IF Len(c) > 2 * n + 1
    THEN <<c[1]>> \o SubSeq(c, Len(c) - 2 * n + 1, Len(c))
    ELSE c

\* browser_agent.py:300-372, agent.py:276-309: the loop over the function
\* calls, from call i on.  It ends when the calls are exhausted ("done"),
\* when the user declines a confirmation ("terminate"), or with an exception
\* ("raise": an unknown safety decision, or handle_action raised).  `handled`
\* counts the handle_action invocations.
RECURSIVE Execute(_, _, _, _)
Execute(calls, i, handled, shots) ==
    IF i > Len(calls)
    THEN [end |-> "done", handled |-> handled, shots |-> shots]
    ELSE IF calls[i].safety = "unknown"
    THEN [end |-> "raise", handled |-> handled, shots |-> shots]
    ELSE IF calls[i].safety = "decline"
    THEN [end |-> "terminate", handled |-> handled, shots |-> shots]
    ELSE IF calls[i].result = "raise"
    THEN [end |-> "raise", handled |-> handled + 1, shots |-> shots]
    ELSE Execute(calls, i + 1, handled + 1, shots \/ calls[i].result = "EnvState")

Outcome(c, ret, handled, raised) ==
    [contents |-> c, ret |-> ret, handled |-> handled, raised |-> raised]

\* browser_agent.py:246-283 with _process_function_calls (285-378), once
\* get_model_response has returned resp.  A return from
\* _process_function_calls, the one of line 308 included, is followed by
\* line 274; an exception is caught at line 276.
run_one_iteration(c, resp, keep) ==
    LET c1  == IF resp.content THEN add_model_response(c) ELSE c
        fcs == extract_function_calls(resp)
        e   == Execute(fcs, 1, 0, FALSE)
    IN  IF should_retry_response(resp) THEN Outcome(c1, "CONTINUE", 0, FALSE)
        ELSE IF is_task_complete(resp) THEN Outcome(c1, "COMPLETE", 0, FALSE)
        ELSE IF fcs = <<>> THEN Outcome(c1, "CONTINUE", 0, FALSE)
        ELSE IF e.end = "done"
        THEN Outcome(cleanup_old_screenshots(add_function_responses(c1, e.shots), keep),
                     "CONTINUE", e.handled, FALSE)
        ELSE IF e.end = "terminate" THEN Outcome(c1, "CONTINUE", e.handled, FALSE)
        ELSE Outcome(c1, "COMPLETE", e.handled, FALSE)

\* agent.py:241-321, once get_model_response has returned resp: nothing is
\* caught here, so an empty response (line 244), a candidate without
\* content (line 214, after line 249 appended the None), an unknown safety
\* decision (line 327) and a failing action (line 178) leave the method as
\* exceptions.
run_one_iteration_standalone(c, resp, max_history_length) ==
    LET c1 == Append(c, IF resp.content THEN Entry("model", FALSE)
                                        ELSE Entry("none", FALSE))
        e  == Execute(resp.calls, 1, 0, FALSE)
    IN  IF ~resp.candidates THEN Outcome(c, "", 0, TRUE)
        ELSE IF ~resp.content THEN Outcome(c1, "", 0, TRUE)
        ELSE IF resp.calls = <<>> THEN Outcome(c1, "COMPLETE", 0, FALSE)
        ELSE IF e.end = "done"
        THEN Outcome(Truncate(Append(c1, Entry("user", e.shots)), max_history_length),
                     "CONTINUE", e.handled, FALSE)
        ELSE IF e.end = "terminate" THEN Outcome(c1, "COMPLETE", e.handled, FALSE)
        ELSE Outcome(c1, "", e.handled, TRUE)

\* The constructor (browser_agent.py:45-94 with config.py:37-39, or
\* agent.py:47-100) and the first line of agent_loop.  The modular agent
\* takes max_retries, base_delay_s and the number of turns with screenshots
\* from its configuration; the standalone one has max_history_length as a
\* constructor argument and the retry settings as defaults.
NewAgent(impl, mr, bd, keep) ==
    /\ apc = "new"
    /\ impl = Standalone => mr = DefaultMaxRetries /\ bd = DefaultBaseDelay
    /\ agentcfg' = [impl |-> impl, max_retries |-> mr, base_delay_s |-> bd,
                    max_recent_turns_with_screenshots |->
                        IF impl = Modular THEN keep ELSE 0,
                    max_history_length |-> IF impl = Standalone THEN keep ELSE 0]
    /\ contents' = <<Query>>
    /\ status' = "CONTINUE"
    /\ apc' = "loop"
    /\ UNCHANGED <<attempt, delay, generated, last>>
    /\ UNCHANGED offAgent

\* agent_loop (browser_agent.py:412-413, agent.py:343-344) enters
\* run_one_iteration, which enters get_model_response with its defaults
\* (browser_agent.py:172-175, agent.py:183).
Iterate ==
    /\ apc = "loop" /\ status = "CONTINUE"
    /\ Len(contents) + 2 <= MaxContents
    /\ attempt' = 0 /\ generated' = 0 /\ delay' = 0
    /\ apc' = "calling"
    /\ UNCHANGED <<agentcfg, contents, status, last>>
    /\ UNCHANGED offAgent

DelayLinear(base_delay_s, a) == base_delay_s * (a + 1)

\* browser_agent.py:212, agent.py:194.
Delay(base_delay_s, a) == base_delay_s * (2 ^ a)

\* browser_agent.py:211, agent.py:193.
IsLastAttempt(a, max_retries) == ~(a < max_retries - 1)

\* An attempt fails: generate_content raised, or (browser_agent.py:185,
\* response_processor.py:82-91) the response has no candidates.  Before the
\* last attempt the delay is computed and slept; after the last one the
\* exception leaves get_model_response and run_one_iteration turns it into
\* COMPLETE (browser_agent.py:276-283, agent.py:233-239).
GenerateContentFails ==
    /\ apc = "calling"
    /\ generated' = generated + 1
    /\ IF IsLastAttempt(attempt, agentcfg.max_retries)
       THEN /\ apc' = "loop"
            /\ status' = "COMPLETE"
            /\ last' = Iteration(NoResponse, "COMPLETE", 0, FALSE)
            /\ UNCHANGED delay
       ELSE /\ delay' = Delay(agentcfg.base_delay_s, attempt)
            /\ apc' = "sleeping"
            /\ UNCHANGED <<status, last>>
    /\ UNCHANGED <<agentcfg, contents, attempt>>
    /\ UNCHANGED offAgent

\* browser_agent.py:218, agent.py:203: the sleep is over, the for loop goes on.
Sleep ==
    /\ apc = "sleeping"
    /\ attempt' = attempt + 1
    /\ apc' = "calling"
    /\ UNCHANGED <<agentcfg, contents, status, delay, generated, last>>
    /\ UNCHANGED offAgent

\* An attempt succeeds: get_model_response returns resp (browser_agent.py:198,
\* agent.py:190) and run_one_iteration goes on to its end.
GenerateContentReturns(resp) ==
    /\ apc = "calling"
    /\ agentcfg.impl = Modular => resp.candidates
    /\ generated' = generated + 1
    /\ LET o == IF agentcfg.impl = Modular
                THEN run_one_iteration(contents, resp,
                         agentcfg.max_recent_turns_with_screenshots)
                ELSE run_one_iteration_standalone(contents, resp,
                         agentcfg.max_history_length)
       IN  /\ contents' = o.contents
           /\ last' = Iteration(resp, o.ret, o.handled, o.raised)
           /\ IF o.raised
              THEN apc' = "crashed" /\ UNCHANGED status
              ELSE apc' = "loop" /\ status' = o.ret
    /\ UNCHANGED <<agentcfg, attempt, delay>>
    /\ UNCHANGED offAgent

\* browser_agent.py:412-415, agent.py:343: the while test fails.
EndLoop ==
    /\ apc = "loop" /\ status = "COMPLETE"
    /\ apc' = "ended"
    /\ UNCHANGED <<agentcfg, contents, status, attempt, delay, generated, last>>
    /\ UNCHANGED offAgent

NextAgent ==
    \/ \E mr \in 1..MaxRetries, bd \in 1..MaxDelay, keep \in 1..MaxKeep :
           NewAgent(Modular, mr, bd, keep)
    \/ \E keep \in 1..MaxKeep :
           NewAgent(Standalone, DefaultMaxRetries, DefaultBaseDelay, keep)
    \/ Iterate
    \/ GenerateContentFails
    \/ Sleep
    \/ \E resp \in Responses : GenerateContentReturns(resp)
    \/ EndLoop

SpecAgent == Init /\ [][NextAgent]_vars

\* The responses without function calls: what the retry loop of
\* get_model_response does is the same for every response.
PlainResponses == {r \in Responses : r.calls = <<>>}

NextRetry ==
    \/ \E mr \in 1..MaxRetries, bd \in 1..MaxDelay, keep \in 1..MaxKeep :
           NewAgent(Modular, mr, bd, keep)
    \/ \E keep \in 1..MaxKeep :
           NewAgent(Standalone, DefaultMaxRetries, DefaultBaseDelay, keep)
    \/ Iterate
    \/ GenerateContentFails
    \/ Sleep
    \/ \E resp \in PlainResponses : GenerateContentReturns(resp)
    \/ EndLoop

\* The agent is one thread: a call of generate_content returns or raises,
\* and a sleep ends.
AgentProgress ==
    /\ WF_vars(GenerateContentFails
               \/ \E resp \in PlainResponses : GenerateContentReturns(resp))
    /\ WF_vars(Sleep)

SpecAgentLive == Init /\ [][NextRetry]_vars /\ AgentProgress


\* ============================================ the plugin manager's steps
\* Everything of the process that is not the plugin manager.
offPlugins == <<serverVars, agentVars, monitorVars>>

\* The manager's two collections as one value.
Manager(list, registry) == [plugins |-> list, _plugin_registry |-> registry]

\* plugin_manager.py:57, 75: `plugin_name in self._plugin_registry`.
IsRegistered(registry, n) == registry[n] # 0

AlreadyRegisteredNever(m, p) == FALSE

\* plugin_manager.py:44: `plugin.name in self._plugin_registry`.
AlreadyRegistered(m, p) == IsRegistered(m._plugin_registry, name(p))

\* plugin_manager.py:31-48.
register_plugin(m, p) ==
    IF p = NotAPlugin THEN [m |-> m, raised |-> TRUE]
    ELSE IF AlreadyRegistered(m, p) THEN [m |-> m, raised |-> TRUE]
    ELSE [m |-> Manager(Append(m.plugins, p),
                        [m._plugin_registry EXCEPT ![name(p)] = p]),
          raised |-> FALSE]

\* list.remove: the first element equal to p goes (plugins compare by
\* identity: ActionPlugin defines no __eq__).
remove(list, p) ==
    LET i == CHOOSE k \in DOMAIN list :
                 list[k] = p /\ \A j \in 1..(k - 1) : list[j] # p
    IN  SubSeq(list, 1, i - 1) \o SubSeq(list, i + 1, Len(list))

\* plugin_manager.py:50-60.
unregister_plugin(m, n) ==
    IF IsRegistered(m._plugin_registry, n)
    THEN Manager(remove(m.plugins, m._plugin_registry[n]),
                 [m._plugin_registry EXCEPT ![n] = 0])
    ELSE m

\* plugin_manager.py:196-199.
clear_plugins(m) == Manager(<<>>, [n \in PluginNames |-> 0])

\* plugin_manager.py:209-210: the plugins of the list are registered in
\* order, from element i on; the first PluginError ends the loop.
RECURSIVE RegisterAll(_, _, _)
RegisterAll(m, list, i) ==
    IF i > Len(list) THEN [m |-> m, raised |-> FALSE]
    ELSE LET r == register_plugin(m, list[i])
         IN  IF r.raised THEN r ELSE RegisterAll(r.m, list, i + 1)

\* plugin_manager.py:201-210.  `own`: the caller passed the manager's own
\* list (manager.plugins), which line 208 has emptied before the loop reads it.
reload_plugins(m, list, own) ==
    RegisterAll(clear_plugins(m), IF own THEN <<>> ELSE list, 1)

\* plugin_manager.py:212-214.
get_plugin_count == Len(plugins)

\* plugin_manager.py:62-78: the plugin, or PluginError.
get_plugin(n) ==
    IF IsRegistered(_plugin_registry, n) THEN _plugin_registry[n] ELSE "PluginError"

SetManager(m) ==
    /\ plugins' = m.plugins
    /\ _plugin_registry' = m._plugin_registry

Self == Manager(plugins, _plugin_registry)

RegisterPlugin(p) ==
    /\ LET r == register_plugin(Self, p)
       IN  /\ SetManager(r.m)
           /\ pout' = [op |-> "register_plugin", arg |-> p, raised |-> r.raised]
    /\ UNCHANGED offPlugins

UnregisterPlugin(n) ==
    /\ SetManager(unregister_plugin(Self, n))
    /\ pout' = [op |-> "unregister_plugin", arg |-> n, raised |-> FALSE]
    /\ UNCHANGED offPlugins

ClearPlugins ==
    /\ SetManager(clear_plugins(Self))
    /\ pout' = [op |-> "clear_plugins", arg |-> 0, raised |-> FALSE]
    /\ UNCHANGED offPlugins

ReloadPlugins(list, own) ==
    /\ own => list = plugins
    /\ LET r == reload_plugins(Self, list, own)
       IN  /\ SetManager(r.m)
           /\ pout' = [op |-> "reload_plugins", arg |-> Len(list), raised |-> r.raised]
    /\ UNCHANGED offPlugins

\* The lists a caller hands to reload_plugins.
PluginLists == UNION {[1..n -> PluginObjects] : n \in 0..MaxReload}

NextPlugins ==
    \/ \E p \in PluginObjects \cup {NotAPlugin} : RegisterPlugin(p)
    \/ \E n \in PluginNames : UnregisterPlugin(n)
    \/ ClearPlugins
    \/ \E list \in PluginLists : ReloadPlugins(list, FALSE)
    \/ ReloadPlugins(plugins, TRUE)

SpecPlugins == Init /\ [][NextPlugins]_vars

\* ======================================== the performance monitor's steps
\* Everything of the process that is not the monitor.
offMonitor == <<serverVars, agentVars, pluginVars>>

Call(op, n) == [op |-> op, name |-> n]

Constructed == oplog # <<>>

\* performance_monitor.py:152-154: the newest max_history_size values stay.
Cut(values, max_history_size) ==
    IF Len(values) > max_history_size
    THEN SubSeq(values, Len(values) - max_history_size + 1, Len(values))
    ELSE values

\* performance_monitor.py:138-154: the value is appended to the list of
\* this metric name (and its metadata to the parallel list, which is cut
\* alike).
record(ms, n, value, max_history_size) ==
    [ms EXCEPT ![n] = Cut(Append(@, value), max_history_size)]

\* performance_monitor.py:157-164: the session count of the name; with an
\* empty session_metrics the `+= 1` raises KeyError (`raised`).
count_in_session(sm, n) ==
    IF n # "action_execution" THEN [sm |-> sm, raised |-> FALSE]
    ELSE IF ~sm.started THEN [sm |-> sm, raised |-> TRUE]
    ELSE [sm |-> [sm EXCEPT !.total_actions = @ + 1], raised |-> FALSE]

\* performance_monitor.py:132-164.
_record_metric(n, value) ==
    /\ metrics' = record(metrics, n, value, monitor.max_history_size)
    /\ session_metrics' = count_in_session(session_metrics, n).sm

\* performance_monitor.py:166-180: the count of the statistics, 0 standing
\* for the empty dict of line 169.
get_statistics(n) ==
    IF metrics[n] = <<>> THEN [count |-> 0] ELSE [count |-> Len(metrics[n])]

\* performance_monitor.py:27-62.
NewMonitor(enabled, max_history_size) ==
    /\ ~Constructed
    /\ monitor' = [enabled |-> enabled, max_history_size |-> max_history_size]
    /\ oplog' = <<Call("__init__", "")>>
    /\ UNCHANGED <<metrics, session_metrics, active_timings, blocks>>
    /\ UNCHANGED offMonitor

Logged(c) ==
    /\ Constructed /\ Len(oplog) < MaxOps
    /\ oplog' = Append(oplog, c)

\* performance_monitor.py:64-79.
MonitorStartSession ==
    /\ Logged(Call("start_session", ""))
    /\ IF monitor.enabled
       THEN session_metrics' = [started |-> TRUE, total_actions |-> 0]
       ELSE UNCHANGED session_metrics
    /\ UNCHANGED <<monitor, metrics, active_timings, blocks>>
    /\ UNCHANGED offMonitor

\* performance_monitor.py:122-130.
RecordMetric(n, value) ==
    /\ Logged(Call("record_metric", n))
    /\ IF monitor.enabled
       THEN _record_metric(n, value)
       ELSE UNCHANGED <<metrics, session_metrics>>
    /\ UNCHANGED <<monitor, active_timings, blocks>>
    /\ UNCHANGED offMonitor

\* performance_monitor.py:104-114: a with block is entered.
TimeOperationEnter(n) ==
    /\ Constructed /\ Len(oplog) < MaxOps /\ Len(blocks) < MaxBlocks
    /\ blocks' = Append(blocks, n)
    /\ IF monitor.enabled
       THEN active_timings' = active_timings \cup {n}
       ELSE UNCHANGED active_timings
    /\ UNCHANGED <<monitor, metrics, session_metrics, oplog>>
    /\ UNCHANGED offMonitor

\* performance_monitor.py:115-120: the innermost block is left, by its end or
\* by an exception, after `duration`.
TimeOperationExit(duration) ==
    /\ blocks # <<>>
    /\ LET n == blocks[Len(blocks)]
       IN  /\ Logged(Call("time_operation", n))
           /\ IF monitor.enabled
              THEN /\ _record_metric(n, duration)
                   /\ active_timings' =
                        IF count_in_session(session_metrics, n).raised
                        THEN active_timings
                        ELSE active_timings \ {n}
              ELSE UNCHANGED <<metrics, session_metrics, active_timings>>
    /\ blocks' = SubSeq(blocks, 1, Len(blocks) - 1)
    /\ UNCHANGED monitor
    /\ UNCHANGED offMonitor

\* performance_monitor.py:248-258.
MonitorReset ==
    /\ Logged(Call("reset", ""))
    /\ IF monitor.enabled
       THEN /\ metrics' = [n \in MetricNames |-> <<>>]
            /\ session_metrics' = NoSessionMetrics
            /\ active_timings' = {}
       ELSE UNCHANGED <<metrics, session_metrics, active_timings>>
    /\ UNCHANGED <<monitor, blocks>>
    /\ UNCHANGED offMonitor

NextMonitor ==
    \/ \E e \in BOOLEAN, h \in 1..MaxHistory : NewMonitor(e, h)
    \/ MonitorStartSession
    \/ \E n \in MetricNames, v \in 1..MaxValue : RecordMetric(n, v)
    \/ \E n \in MetricNames : TimeOperationEnter(n)
    \/ \E d \in 0..MaxValue : TimeOperationExit(d)
    \/ MonitorReset

SpecMonitor == Init /\ [][NextMonitor]_vars

\* ================================================================ claims

\* A command request: it owns a Message of kind "command".
IsCommand(c) == req[c].kind = "command"

\* ---------------------------------------------------------------------
\* C1: a command whose result was received before the timeout returns
\* exactly that result (screenshot and url), and once the request has
\* returned the pending-message table no longer holds its id.
C1_ReturnsItsResultAndIsRemoved ==
    \A c \in Ids :
        /\ IsCommand(c) /\ sess[req[c].sess] = "ACTIVE"
        /\ req[c].pc = "done" /\ req[c].status = HTTP_200
        =>  /\ slot[c].set /\ req[c].val = slot[c].val /\ slot[c].by = c
            /\ ~IsPending(pending_messages, c)

\* ---------------------------------------------------------------------
\* C2: with several commands outstanding and results delivered in any
\* order, a slot is only ever resolved by a result that carries the id of
\* its own Message, and a request returns the value of its own slot.
C2_ResolvedByOwnResult ==
    \A c \in Ids :
        /\ slot[c].set => slot[c].by = c
        /\ IsCommand(c) /\ req[c].pc = "done" /\ req[c].status = HTTP_200 =>
              slot[c].set /\ req[c].val = slot[c].val

\* C2 witness: command 1 still waits, unresolved, while command 2, submitted
\* after it, has already returned its own result.
C2_Witness ==
    /\ MaxMsgs >= 2
    /\ req[1].pc = "waiting" /\ ~slot[1].set /\ IsPending(pending_messages, 1)
    /\ IsCommand(2) /\ req[2].pc = "done" /\ req[2].status = HTTP_200
    /\ slot[2].by = 2

\* ---------------------------------------------------------------------
\* C3: the slot of a command is resolved at most once: a resolved slot never
\* changes again, and once the callback that resolved it has finished the id
\* is no key of the table, so every later result for it is discarded.
InProgress(c) == \E t \in Threads : hand[t].pc # "idle" /\ hand[t].id = c

C3_Discarded ==
    \A c \in Ids : slot[c].set /\ ~InProgress(c) => ~IsPending(pending_messages, c)

Ends(c) == req[c].pc # "done" /\ req'[c].pc = "done" /\ req'[c].kind = "command"

C5_TimedOutSlotRemoved ==
    \A c \in Ids :
        IsCommand(c) /\ req[c].pc = "done" /\ req[c].status = HTTP_408 =>
            c \notin pending_messages

\* ---------------------------------------------------------------------
\* C6: a callback for a result whose id is no key of the table (unknown,
\* already resolved, or a duplicate whose key was deleted meanwhile) ends
\* without resolving a slot and leaves the table and every slot unchanged.
C6_UnknownIdDiscarded ==
    [][ /\ \A i \in Ids : ev' = Event("unknown", i) /\ ev' # ev =>
              /\ i \notin pending_messages
              /\ pending_messages' = pending_messages /\ slot' = slot /\ hand' = hand
        /\ \A t \in Threads :
              hand[t].pc # "idle" /\ hand'[t] # hand[t] /\ hand[t].id \notin pending_messages =>
                  /\ pending_messages' = pending_messages /\ slot' = slot
                  /\ hand'[t] = Idle ]_vars

\* C6 witness: a duplicate result for a command that has already returned
\* its result was discarded while another command is still pending and
\* unresolved.
C6_Witness ==
    /\ ev.branch = "unknown" /\ req[ev.id].pc = "done" /\ req[ev.id].status = HTTP_200
    /\ slot[ev.id].set
    /\ \E c \in Ids :
          c # ev.id /\ req[c].pc = "waiting" /\ c \in pending_messages /\ ~slot[c].set


\* ---------------------------------------------------------------------
\* The open correlation readers started for session s.
OpenReaders(rs, s, handler) ==
    {r \in DOMAIN rs : rs[r].sess = s /\ rs[r].handler = handler /\ rs[r].open}

\* C7: a command submitted against a session that was deleted or never
\* created ends at once with an error: it is not published, registers no
\* pending slot, provisions nothing and never waits.
C7_FailsFastOnMissingSession ==
    [][ \A c \in Ids :
          /\ req[c].pc = "unused" /\ req'[c].pc # "unused"
          /\ req'[c].kind = "command" /\ sess[req'[c].sess] \in {"NONE", "GONE"}
          =>  /\ req'[c].pc = "done" /\ req'[c].status # HTTP_200
              /\ pending_messages' = pending_messages
              /\ topics' = topics /\ readers' = readers ]_vars

\* ---------------------------------------------------------------------
\* C8: both topics of a session exist while it is ACTIVE, and when its
\* deletion returns neither topic exists and no reader started for the
\* session is still open.
C8_TopicsForLifetimeTornDownOnce ==
    [][ \A s \in Sessions :
          /\ sess'[s] = "ACTIVE" =>
                /\ command_topic_path(s) \in topics'
                /\ screenshot_topic_path(s) \in topics'
          /\ sess[s] = "ACTIVE" /\ sess'[s] = "GONE" =>
                /\ command_topic_path(s) \notin topics'
                /\ screenshot_topic_path(s) \notin topics'
                /\ \A r \in DOMAIN readers' :
                      readers'[r].sess = s => ~readers'[r].open ]_vars

\* ---------------------------------------------------------------------
\* C9: when POST /sessions fails, no topic, subscription or reader of the
\* session id is left behind.
C9_FailedCreateLeavesNothing ==
    [][ \A s \in Sessions :
          sess[s] = "NONE" /\ sess'[s] = "FAILED" =>
              /\ command_topic_path(s) \notin topics'
              /\ screenshot_topic_path(s) \notin topics'
              /\ subscribers'[s] = 0
              /\ \A r \in DOMAIN readers' : readers'[r].sess # s ]_vars

\* ---------------------------------------------------------------------
\* C10: however often start_session ran for a session id, the session has
\* at most one open correlation reader, and it is the registered one.
C10_StartSessionIdempotent ==
    \A s \in Sessions :
        /\ Cardinality(OpenReaders(readers, s, "corr")) <= 1
        /\ \A r \in OpenReaders(readers, s, "corr") :
              (\A q \in DOMAIN readers : readers[q].sess = s => readers[q].handler = "corr")
                  => subscribers[s] = r


\* ---------------------------------------------------------------------
\* C11: from every state end_session, when no broker call fails, returns
\* without raising and leaves neither topic of the session and no registry
\* entry for it, and a second call then returns without raising and changes
\* nothing.
C11_EndSessionIdempotent ==
    \A s \in Sessions :
        LET once  == end_session(Mgr, s, 0)
            twice == end_session(once.st, s, 0)
        IN  /\ ~once.raised
            /\ command_topic_path(s) \notin once.st.topics
            /\ screenshot_topic_path(s) \notin once.st.topics
            /\ once.st.subscribers[s] = 0
            /\ once.st.subscribers[s] # subscribers[s] =>
                  ~once.st.readers[subscribers[s]].open
            /\ ~twice.raised /\ twice.st = once.st

\* C11 witness: end_session has run for a session that was ACTIVE with a
\* registered reader, so that the call the formula makes is a second call,
\* on topics and a registration that are already gone.
C11_Witness ==
    \E s \in Sessions :
        /\ sess[s] = "GONE" /\ subscribers[s] = 0
        /\ command_topic_path(s) \notin topics /\ screenshot_topic_path(s) \notin topics
        /\ \E r \in DOMAIN readers : readers[r].sess = s /\ ~readers[r].open


\* ---------------------------------------------------------------------
\* C12: when publish_message leaves its publish step without the command
\* going on to wait, the request ends with the failure outcome and the id
\* the call registered is no key of the pending-message table any more.
C12_FailedPublishLeavesNoEntry ==
    [][ \A c \in Ids :
          req[c].pc = "publishing" /\ req'[c].pc = "done" /\ req'[c].kind = "command" =>
              /\ req'[c].status = HTTP_500
              /\ c \notin pending_messages' ]_vars

\* C12 witness: a publish failed after a callback had already found the id in
\* the table: the request has ended with 500, the slot is unresolved, the
\* callback is still in progress and the id is no key any more.
C12_Witness ==
    \E c \in Ids, t \in Threads :
        /\ IsCommand(c) /\ req[c].pc = "done" /\ req[c].status = HTTP_500
        /\ hand[t].pc = "found" /\ hand[t].id = c
        /\ ~slot[c].set /\ c \notin pending_messages


\* ---------------------------------------------------------------------
\* A reader that runs the correlation handler for session s and that the
\* transport delivers to.
LiveCorrelationReader(rs, s) ==
    \E r \in DOMAIN rs :
        /\ rs[r].sess = s /\ rs[r].handler = "corr"
        /\ rs[r].open /\ rs[r].sub = "attached"

\* C13: whenever a command for an ACTIVE session has been published
\* successfully, this process has a live reader for the session that runs
\* the correlation handler.
C13_PublishedCommandHasReader ==
    [][ \A c \in Ids :
          /\ req[c].pc = "publishing" /\ req'[c].pc = "waiting"
          /\ sess'[req[c].sess] = "ACTIVE"
          => LiveCorrelationReader(readers', req[c].sess) ]_vars


\* ---------------------------------------------------------------------
\* C14: a callback whose handling raised (into the except clause of the
\* correlation handler, or out of a stream callback) has not acknowledged
\* its message.
C14_AckOnlyAfterSuccess ==
    ev.branch \in {"error", "escaped"} => ~ev.acked


\* ---------------------------------------------------------------------
\* The stream readers, and the stream callbacks in progress for a reader.
StreamReaders == {r \in DOMAIN readers : readers[r].handler = "stream"}

InFlight(r) == {t \in Threads : shand[t].pc = "parsed" /\ shand[t].r = r}

Count(q, v) == Cardinality({i \in DOMAIN q : q[i] = v})

\* C15 as claimed: once the client of a stream is gone and no callback of
\* the stream is in progress, the stream has emitted exactly the screenshots
\* its reader received, in the order received.
C15_EveryReceivedEmittedInOrder ==
    \A r \in StreamReaders :
        ~readers[r].open /\ InFlight(r) = {} => emitted[r] = received[r]

\* C15 as amended: a stream emits the events its callbacks appended, each at
\* most once and in the order appended (what is appended is emitted or still
\* buffered), and the callbacks append one event per screenshot received;
\* nothing is said of the events still buffered when the client is gone, nor
\* of the order received.
C15_EmitsAppendedInOrder ==
    \A r \in 1..MaxReaders :
        /\ emitted[r] \o messages[r] = appended[r]
        /\ \A v \in Shots :
              Count(received[r], v) =
                  Count(appended[r], v)
                    + Cardinality({t \in InFlight(r) : shand[t].val = v})

\* C15 witness: a stream has emitted two events in an order that is not the
\* order in which its reader received them.
C15_Witness ==
    \E r \in StreamReaders :
        Len(emitted[r]) = MaxEvents /\ emitted[r] # received[r]


\* ---------------------------------------------------------------------
\* C16: when the loop of a stream has ended on its client's disconnect, the
\* stream's reader is closed and the subscription created for it is gone, so
\* that the session holds the readers and subscriptions it held before.
C16_DisconnectLeaksNothing ==
    [][ \A r \in StreamReaders :
          readers[r].open /\ ~readers'[r].open =>
              /\ \A q \in DOMAIN readers' : q # r => readers'[q] = readers[q]
              /\ readers'[r].sub \notin {"attached", "detached"} ]_vars


\* ---------------------------------------------------------------------
\* C17: on an ACTIVE session whose registry entry is an open correlation
\* reader, a step that opens a stream or closes a stream's reader leaves the
\* registry entry of the session as it was.
C17_StreamLeavesSessionAlone ==
    [][ \A s \in Sessions :
          /\ sess[s] = "ACTIVE" /\ sess'[s] = "ACTIVE"
          /\ subscribers[s] \in OpenReaders(readers, s, "corr")
          /\ \/ /\ Len(readers') = Len(readers) + 1
                /\ readers'[Len(readers')].handler = "stream"
             \/ \E r \in StreamReaders : readers[r].open /\ ~readers'[r].open
          => subscribers'[s] = subscribers[s] ]_vars


\* ---------------------------------------------------------------------
\* C18: a DELETE of an ACTIVE session ends with 200 and with neither topic
\* of the session left, whatever became of the shut_down publish.
C18_DeleteAlwaysTearsDown ==
    [][ \A c \in Ids :
          /\ req[c].pc # "done" /\ req'[c].pc = "done" /\ req'[c].kind = "shut_down"
          /\ sess[req'[c].sess] = "ACTIVE"
          =>  /\ req'[c].status = HTTP_200
              /\ command_topic_path(req'[c].sess) \notin topics'
              /\ screenshot_topic_path(req'[c].sess) \notin topics' ]_vars


\* ---------------------------------------------------------------------
\* C19: from every state, after shut_down has returned every reader the
\* process started is closed and the registry is empty.
C19_ShutDownClosesEveryReader ==
    LET st == shut_down(Mgr)
    IN  /\ \A s \in Sessions : st.subscribers[s] = 0
        /\ \A r \in DOMAIN st.readers : ~st.readers[r].open


\* ---------------------------------------------------------------------
\* C20: no exception leaves a consumer callback, of the correlation reader
\* or of a stream reader, whatever the message holds.
C20_NoExceptionEscapes ==
    ev.branch # "escaped"


C25_RegisteredBeforePublish ==
    [][ \A c \in Ids :
          req[c].pc = "unused" /\ req'[c].pc = "publishing" =>
              c \in pending_messages' ]_vars

\* C25 witness: a callback found the id of a command whose publish call has
\* not returned yet.
C25_Witness ==
    \E c \in Ids, t \in Threads :
        /\ req[c].pc = "publishing" /\ IsCommand(c)
        /\ hand[t].pc = "found" /\ hand[t].id = c


\* ---------------------------------------------------------------------
\* C26: a callback resolves a slot, or removes a key, only of a command that
\* was submitted on the session whose results channel the callback's reader
\* reads (`sess` of a callback is the session of its reader).
C26_SessionsIsolated ==
    [][ \A t \in Threads :
          /\ hand[t].pc \in {"found", "resolved"} /\ hand'[t] # hand[t]
          /\ slot' # slot \/ pending_messages' # pending_messages
          => hand[t].sess = req[hand[t].id].sess ]_vars


\* ---------------------------------------------------------------------
\* C27: every key of the table is the id of a request that is still in
\* progress (handed to the publisher and not yet returned to its caller); so
\* the table is empty once every request has returned.
C27_TableHoldsOnlyInProgress ==
    \A c \in pending_messages : req[c].pc \in {"publishing", "waiting"}


\* ---------------------------------------------------------------------
\* C28: a request for a deleted session (a command, a delete, a screenshot
\* stream) leaves it without transport resources: no topic bears its id, no
\* open reader reads for it and the registry has no entry for it.
HasNoTransport(s) ==
    /\ command_topic_path(s) \notin topics
    /\ screenshot_topic_path(s) \notin topics
    /\ subscribers[s] = 0
    /\ \A r \in DOMAIN readers : readers[r].sess = s => ~readers[r].open

C28_DeletedStaysGone ==
    [][ \A s \in Sessions :
          /\ sess[s] = "GONE" /\ HasNoTransport(s)
          /\ \/ \E c \in Ids : req[c].pc = "unused" /\ req'[c].sess = s
             \/ /\ Len(readers') > Len(readers)
                /\ readers'[Len(readers')].handler = "stream"
          => HasNoTransport(s)' ]_vars


\* ---------------------------------------------------------------------
\* A step in which get_model_response returned a response to
\* run_one_iteration of the modular agent, which then ran to its end.
ModularIteration ==
    /\ agentcfg.impl = Modular
    /\ apc = "calling" /\ apc' \notin {"calling", "sleeping"}
    /\ last'.resp.candidates

\* The iteration appended the model turn and nothing else.
AppendedModelTurn == contents' = Append(contents, Entry("model", FALSE))

\* The iteration appended the model turn and then one user turn.
AppendedTwoTurns ==
    /\ Len(contents') = Len(contents) + 2
    /\ contents'[Len(contents) + 1].role = "model"
    /\ contents'[Len(contents) + 2].role = "user"

\* Every call of the sequence is executed: no confirmation is declined, no
\* safety decision is unknown and handle_action returns.
AllExecuted(calls) ==
    \A i \in DOMAIN calls :
        calls[i].safety \in {"none", "accept"} /\ calls[i].result # "raise"

\* C22 as stated: an iteration whose response has text and no function call
\* returns COMPLETE and appends the model turn only; an iteration whose
\* response has a function call returns CONTINUE, invokes the action handler
\* once per call and appends the model turn and one user turn.
C22_IterationOutcome ==
    [][ ModularIteration =>
          LET r == last'.resp
          IN  /\ r.content /\ r.text /\ r.calls = <<>> =>
                    status' = "COMPLETE" /\ AppendedModelTurn
              /\ r.content /\ r.calls # <<>> =>
                    /\ status' = "CONTINUE"
                    /\ last'.handled = Len(r.calls)
                    /\ AppendedTwoTurns ]_vars

\* C22 amended: the function-call case holds when every call is executed;
\* when handle_action raises (or a safety decision is unknown) the iteration
\* returns COMPLETE with the model turn only.
C22_IterationOutcomeWhenExecuted ==
    [][ ModularIteration =>
          LET r == last'.resp
              e == Execute(r.calls, 1, 0, FALSE)
          IN  /\ r.content /\ r.text /\ r.calls = <<>> =>
                    status' = "COMPLETE" /\ AppendedModelTurn
              /\ r.content /\ r.calls # <<>> /\ AllExecuted(r.calls) =>
                    /\ status' = "CONTINUE"
                    /\ last'.handled = Len(r.calls)
                    /\ AppendedTwoTurns
              /\ r.content /\ r.calls # <<>> /\ e.end = "raise" =>
                    /\ status' = "COMPLETE"
                    /\ last'.handled = e.handled
                    /\ AppendedModelTurn ]_vars

\* C22 witness: an iteration of the modular agent executed two function
\* calls and returned CONTINUE with three more entries than the query.
C22_Witness ==
    /\ agentcfg.impl = Modular /\ apc = "loop"
    /\ Len(last.resp.calls) = 2 /\ last.handled = 2 /\ last.ret = "CONTINUE"
    /\ Len(contents) = 3


\* ---------------------------------------------------------------------
\* C29: when the user declines the safety confirmation of a function call,
\* that call is not handled (only the calls before it were), the iteration
\* returns COMPLETE, and the agent makes no further model call: it is at the
\* loop test with a status that ends the loop.
C29_DeclineEndsTheLoop ==
    [][ /\ apc = "calling" /\ apc' \notin {"calling", "sleeping"}
        /\ last'.resp.candidates /\ last'.resp.content
        /\ Execute(last'.resp.calls, 1, 0, FALSE).end = "terminate"
        => /\ last'.handled = Execute(last'.resp.calls, 1, 0, FALSE).handled
           /\ last'.handled < Len(last'.resp.calls)
           /\ last'.ret = "COMPLETE"
           /\ apc' = "loop" /\ status' = "COMPLETE" ]_vars


\* ---------------------------------------------------------------------
\* The step in which get_model_response gives up: its last attempt failed.
GaveUp ==
    /\ apc = "calling" /\ apc' = "loop"
    /\ last' = Iteration(NoResponse, "COMPLETE", 0, FALSE)

\* C30: get_model_response calls the model at most max_retries times; a
\* failed attempt number `attempt` that is not the last is followed by a
\* sleep of base_delay_s * 2^attempt and then by attempt number attempt + 1;
\* a successful attempt ends the call at once; the call gives up only
\* after max_retries failed attempts; and it always comes to an end.
C30_RetryBoundedAndTerminates ==
    /\ [](generated <= agentcfg.max_retries)
    /\ [][ /\ apc = "calling" /\ apc' = "sleeping" =>
                /\ attempt < agentcfg.max_retries - 1
                /\ generated' = attempt + 1
                /\ delay' = agentcfg.base_delay_s * (2 ^ attempt)
           /\ apc = "sleeping" /\ apc' # "sleeping" =>
                apc' = "calling" /\ attempt' = attempt + 1
           /\ apc = "calling" /\ apc' # "calling" /\ apc' # "sleeping" /\ ~GaveUp =>
                generated' = attempt + 1 /\ last'.resp \in PlainResponses
           /\ GaveUp => generated' = agentcfg.max_retries ]_vars
    /\ (apc \in {"calling", "sleeping"}) ~> (apc \in {"loop", "crashed"})

\* C30 witness: the third attempt failed and the agent sleeps four times
\* the base delay before the fourth.
C30_Witness ==
    /\ apc = "sleeping" /\ attempt = 2 /\ generated = 3
    /\ delay = 4 * agentcfg.base_delay_s


\* ---------------------------------------------------------------------
\* The plugins the registry holds.
Registered == {_plugin_registry[n] : n \in {k \in PluginNames : IsRegistered(_plugin_registry, k)}}

\* C23: after any sequence of the four operations the list and the registry
\* hold the same plugins, no two plugins of the list share a name, the
\* plugin count is the number of registered names, and get_plugin of a
\* registered name is the plugin of that name; a register_plugin of a name
\* that is registered raises and changes neither collection.
C23_ListAndRegistryAgree ==
    /\ [](/\ {plugins[i] : i \in DOMAIN plugins} = Registered
          /\ \A i, j \in DOMAIN plugins :
                 i # j => name(plugins[i]) # name(plugins[j])
          /\ get_plugin_count =
                 Cardinality({n \in PluginNames : IsRegistered(_plugin_registry, n)})
          /\ \A n \in PluginNames :
                 IsRegistered(_plugin_registry, n) =>
                     /\ name(get_plugin(n)) = n
                     /\ \E i \in DOMAIN plugins : plugins[i] = get_plugin(n))
    /\ [][ /\ pout' # pout /\ pout'.op = "register_plugin"
           /\ pout'.arg # NotAPlugin
           /\ IsRegistered(_plugin_registry, name(pout'.arg))
           => pout'.raised /\ UNCHANGED <<plugins, _plugin_registry>> ]_vars

\* C23 witness: with two plugins registered, a register_plugin of another
\* object with a registered name has raised.
C23_Witness ==
    /\ pout.op = "register_plugin" /\ pout.raised /\ pout.arg # NotAPlugin
    /\ Len(plugins) = 2
    /\ \A i \in DOMAIN plugins : plugins[i] # pout.arg


\* ---------------------------------------------------------------------
\* C24: with an enabled monitor that keeps at least two values, in a
\* started session, after exactly one record_metric on a metric m and one
\* completed time_operation block, in either order, get_statistics(m)
\* reports count 2.
C24_RecordAndBlockCountTwo ==
    \A m, n \in MetricNames :
        /\ monitor.enabled /\ monitor.max_history_size >= 2
        /\ \/ oplog = <<Call("__init__", ""), Call("start_session", ""),
                        Call("record_metric", m), Call("time_operation", n)>>
           \/ oplog = <<Call("__init__", ""), Call("start_session", ""),
                        Call("time_operation", n), Call("record_metric", m)>>
        => get_statistics(m).count = 2

====
